---------------------------- MODULE Spec2Model ----------------------------
(***************************************************************************)
(* Model of src/validators/cross-validator.ts (class CrossValidator).      *)
(*                                                                         *)
(* A validator is constructed from a partial threshold override and then   *)
(* validates pairs of metric records (GitHub, NEAR).  validate is modelled *)
(* operator by operator after the private methods of the class.            *)
(*                                                                         *)
(* Numbers.  Collection timestamps, counters and set sizes are integers.   *)
(* The two ratio thresholds and every value computed from a division or a  *)
(* multiplication by a ratio are JavaScript numbers modelled as exact      *)
(* fractions [n, d] in lowest terms with d > 0; NaN is the fraction 0/0.   *)
(* Floating-point rounding is not modelled.  A property that is missing    *)
(* from a record is a field missing from the record's DOMAIN; reading it   *)
(* in an arithmetic expression yields NaN (ToNumber(undefined)).           *)
(***************************************************************************)
EXTENDS Integers, Sequences, FiniteSets

VARIABLES
    ctorArg,     \* the Partial<ValidationThresholds> handed to the constructor
    thresholds,  \* this.thresholds of the validator
    github,      \* the GitHubMetrics record the caller holds
    near,        \* the NEARMetrics record the caller holds
    clock,       \* the value Date.now() returns
    now,         \* const now of the latest validateDataFreshness call
    result,      \* the ValidationResult of the latest validate call, or NoResult
    saved        \* an earlier call kept by the caller: its inputs and findings

vars == <<ctorArg, thresholds, github, near, clock, now, result, saved>>

(***************************************************************************)
(* Bounds of the model.                                                    *)
(***************************************************************************)
MaxTime == 2    \* small timestamps and clock values are 0..MaxTime
MaxCount == 2   \* activity counters are 0..MaxCount
MaxUsers == 2   \* user identifiers are 1..MaxUsers

(***************************************************************************)
(* JavaScript numbers as fractions.                                        *)
(***************************************************************************)
Abs(x) == IF x < 0 THEN -x ELSE x

RECURSIVE Gcd(_, _)
Gcd(a, b) == IF b = 0 THEN a ELSE Gcd(b, a % b)

NaN == [n |-> 0, d |-> 0]

IsNaN(x) == x.d = 0

\* n / d for integers n and d # 0, in lowest terms with a positive denominator
Frac(n, d) ==
    LET g == Gcd(Abs(n), Abs(d))
        s == IF d < 0 THEN -1 ELSE 1
    IN  [n |-> (s * n) \div g, d |-> (s * d) \div g]

Num(i) == [n |-> i, d |-> 1]

\* ToNumber of the property f of object o: NaN when the property is missing
NumberOf(o, f) == IF f \in DOMAIN o THEN Num(o[f]) ELSE NaN

\* a + b
Plus(a, b) ==
    IF IsNaN(a) \/ IsNaN(b) THEN NaN
    ELSE Frac(a.n * b.d + b.n * a.d, a.d * b.d)

\* a * b
Times(a, b) ==
    IF IsNaN(a) \/ IsNaN(b) THEN NaN
    ELSE Frac(a.n * b.n, a.d * b.d)

\* a / b; 0 / 0 is NaN (a non-zero number is never divided by zero here)
Over(a, b) ==
    IF IsNaN(a) \/ IsNaN(b) \/ b.n = 0 THEN NaN
    ELSE Frac(a.n * b.d, a.d * b.n)

\* a < b and a > b: false when either side is NaN
Less(a, b) == ~IsNaN(a) /\ ~IsNaN(b) /\ a.n * b.d < b.n * a.d

Greater(a, b) == Less(b, a)

\* a === b on numbers: NaN equals nothing
StrictEq(a, b) == ~IsNaN(a) /\ ~IsNaN(b) /\ a = b

\* Math.max and Math.min: NaN when an argument is NaN
MathMax(a, b) ==
    IF IsNaN(a) \/ IsNaN(b) THEN NaN ELSE IF Less(a, b) THEN b ELSE a

MathMin(a, b) ==
    IF IsNaN(a) \/ IsNaN(b) THEN NaN ELSE IF Less(b, a) THEN b ELSE a

(***************************************************************************)
(* Thresholds.                                                             *)
(***************************************************************************)
ThresholdKeys ==
    {"maxTimeDrift", "minActivityCorrelation", "maxDataAge", "maxUserDiffRatio"}

DEFAULT_THRESHOLDS ==
    [ maxTimeDrift           |-> 6 * 60 * 60 * 1000,
      minActivityCorrelation |-> Frac(3, 10),
      maxDataAge             |-> 24 * 60 * 60 * 1000,
      maxUserDiffRatio       |-> Frac(5, 10) ]

\* { ...DEFAULT_THRESHOLDS, ...thresholds }
Constructor(arg) ==
    [k \in ThresholdKeys |->
        IF k \in DOMAIN arg THEN arg[k] ELSE DEFAULT_THRESHOLDS[k]]

(***************************************************************************)
(* Findings.                                                               *)
(***************************************************************************)
ErrorCode_USER_COUNT_DISCREPANCY == "USER_COUNT_DISCREPANCY"

createValidationError(code, message, context) ==
    [code |-> code, message |-> message, context |-> context]

calculateTimeDrift(gh, nr) ==
    Abs(gh.metadata.collectionTimestamp - nr.metadata.collectionTimestamp)

hasTimestampDriftInclusive(gh, nr, th) ==
    LET githubTimestamp == gh.metadata.collectionTimestamp
        nearTimestamp == nr.metadata.collectionTimestamp
        timeDiff == Abs(githubTimestamp - nearTimestamp)
    IN  timeDiff >= th.maxTimeDrift

hasTimestampDrift(gh, nr, th) ==
    LET githubTimestamp == gh.metadata.collectionTimestamp
        nearTimestamp == nr.metadata.collectionTimestamp
        timeDiff == Abs(githubTimestamp - nearTimestamp)
    IN  timeDiff > th.maxTimeDrift

\* the mutant of validateDataFreshness: the NEAR check is an else-branch of the
\* GitHub check
validateDataFreshnessElse(gh, nr, errors, th, t) ==
    IF t - gh.metadata.collectionTimestamp > th.maxDataAge
    THEN Append(errors,
            createValidationError("STALE_DATA", "GitHub data is too old",
                [timestamp |-> gh.metadata.collectionTimestamp,
                 maxAge |-> th.maxDataAge]))
    ELSE IF t - nr.metadata.collectionTimestamp > th.maxDataAge
    THEN Append(errors,
            createValidationError("STALE_DATA", "NEAR data is too old",
                [timestamp |-> nr.metadata.collectionTimestamp,
                 maxAge |-> th.maxDataAge]))
    ELSE errors

\* the mutant of validateDataFreshness: the NEAR record is checked first
validateDataFreshnessNearFirst(gh, nr, errors, th, t) ==
    LET afterNear ==
            IF t - nr.metadata.collectionTimestamp > th.maxDataAge
            THEN Append(errors,
                    createValidationError("STALE_DATA", "NEAR data is too old",
                        [timestamp |-> nr.metadata.collectionTimestamp,
                         maxAge |-> th.maxDataAge]))
            ELSE errors
    IN  IF t - gh.metadata.collectionTimestamp > th.maxDataAge
        THEN Append(afterNear,
                createValidationError("STALE_DATA", "GitHub data is too old",
                    [timestamp |-> gh.metadata.collectionTimestamp,
                     maxAge |-> th.maxDataAge]))
        ELSE afterNear

\* errors after validateDataFreshness(github, near, errors); t is Date.now()
validateDataFreshness(gh, nr, errors, th, t) ==
    LET afterGitHub ==
            IF t - gh.metadata.collectionTimestamp > th.maxDataAge
            THEN Append(errors,
                    createValidationError("STALE_DATA", "GitHub data is too old",
                        [timestamp |-> gh.metadata.collectionTimestamp,
                         maxAge |-> th.maxDataAge]))
            ELSE errors
    IN  IF t - nr.metadata.collectionTimestamp > th.maxDataAge
        THEN Append(afterGitHub,
                createValidationError("STALE_DATA", "NEAR data is too old",
                    [timestamp |-> nr.metadata.collectionTimestamp,
                     maxAge |-> th.maxDataAge]))
        ELSE afterGitHub

\* the mutant of calculateActivityCorrelation: no guard for idle sources
calculateActivityCorrelationUnguarded(gh, nr) ==
    LET githubActivity ==
            Over(Plus(Plus(NumberOf(gh.commits, "count"),
                           NumberOf(gh.pullRequests, "merged")),
                      NumberOf(gh.issues, "closed")),
                 Num(3))
        nearActivity ==
            Over(Plus(NumberOf(nr.transactions, "count"),
                      NumberOf(nr.contract, "calls")),
                 Num(2))
        maxActivity == MathMax(githubActivity, nearActivity)
    IN  Over(MathMin(githubActivity, nearActivity), maxActivity)

calculateActivityCorrelation(gh, nr) ==
    LET githubActivity ==
            Over(Plus(Plus(NumberOf(gh.commits, "count"),
                           NumberOf(gh.pullRequests, "merged")),
                      NumberOf(gh.issues, "closed")),
                 Num(3))
        nearActivity ==
            Over(Plus(NumberOf(nr.transactions, "count"),
                      NumberOf(nr.contract, "calls")),
                 Num(2))
        maxActivity == MathMax(githubActivity, nearActivity)
    IN  IF StrictEq(maxActivity, Num(0)) THEN Num(1)
        ELSE Over(MathMin(githubActivity, nearActivity), maxActivity)

\* the mutant of validateActivityCorrelation: the comparison is not strict
validateActivityCorrelationInclusive(gh, nr, warnings, th) ==
    LET correlation == calculateActivityCorrelation(gh, nr)
    IN  IF ~Greater(correlation, th.minActivityCorrelation)
        THEN Append(warnings,
                createValidationError("LOW_ACTIVITY_CORRELATION",
                    "Low correlation between GitHub and NEAR activity",
                    [correlation |-> correlation,
                     threshold |-> th.minActivityCorrelation]))
        ELSE warnings

\* warnings after validateActivityCorrelation(github, near, warnings)
validateActivityCorrelation(gh, nr, warnings, th) ==
    LET correlation == calculateActivityCorrelation(gh, nr)
    IN  IF Less(correlation, th.minActivityCorrelation)
        THEN Append(warnings,
                createValidationError("LOW_ACTIVITY_CORRELATION",
                    "Low correlation between GitHub and NEAR activity",
                    [correlation |-> correlation,
                     threshold |-> th.minActivityCorrelation]))
        ELSE warnings

\* the mutant of validateUserEngagement: identifiers are counted per list, an
\* identifier of two lists twice
validateUserEngagementCounting(gh, nr, warnings, th) ==
    LET githubUsers == Cardinality(gh.commits.authors)
                       + Cardinality(gh.pullRequests.authors)
                       + Cardinality(gh.issues.participants)
        nearUsers == Cardinality(nr.transactions.uniqueUsers)
                     + Cardinality(nr.contract.uniqueCallers)
        userDiff == Abs(githubUsers - nearUsers)
        maxDiff == Times(MathMax(Num(githubUsers), Num(nearUsers)),
                         th.maxUserDiffRatio)
    IN  IF Greater(Num(userDiff), maxDiff)
        THEN Append(warnings,
                [code |-> ErrorCode_USER_COUNT_DISCREPANCY,
                 message |-> "Large discrepancy between GitHub and NEAR user counts",
                 context |-> [githubUsers |-> githubUsers,
                              nearUsers |-> nearUsers,
                              difference |-> userDiff,
                              threshold |-> maxDiff]])
        ELSE warnings

\* warnings after validateUserEngagement(github, near, warnings); the lists of
\* identifiers are modelled by the sets of their elements
validateUserEngagement(gh, nr, warnings, th) ==
    LET githubUsers == gh.commits.authors \cup gh.pullRequests.authors
                       \cup gh.issues.participants
        nearUsers == nr.transactions.uniqueUsers \cup nr.contract.uniqueCallers
        userDiff == Abs(Cardinality(githubUsers) - Cardinality(nearUsers))
        maxDiff == Times(MathMax(Num(Cardinality(githubUsers)),
                                 Num(Cardinality(nearUsers))),
                         th.maxUserDiffRatio)
    IN  IF Greater(Num(userDiff), maxDiff)
        THEN Append(warnings,
                [code |-> ErrorCode_USER_COUNT_DISCREPANCY,
                 message |-> "Large discrepancy between GitHub and NEAR user counts",
                 context |-> [githubUsers |-> Cardinality(githubUsers),
                              nearUsers |-> Cardinality(nearUsers),
                              difference |-> userDiff,
                              threshold |-> maxDiff]])
        ELSE warnings

\* errors of validate before the freshness check
driftErrors(gh, nr, th) ==
    IF hasTimestampDrift(gh, nr, th)
    THEN <<createValidationError("TIMESTAMP_DRIFT",
              "Significant time drift between metrics",
              [drift |-> calculateTimeDrift(gh, nr)])>>
    ELSE <<>>

\* the mutant of validate: a result with warnings is not valid
validateStrict(gh, nr, th, t1, t2) ==
    LET errors == validateDataFreshness(gh, nr, driftErrors(gh, nr, th), th, t1)
        warnings == validateUserEngagement(gh, nr,
                        validateActivityCorrelation(gh, nr, <<>>, th), th)
    IN  [isValid |-> Len(errors) = 0 /\ Len(warnings) = 0,
         errors |-> errors,
         warnings |-> warnings,
         timestamp |-> t2,
         metadata |-> [source |-> "github", validationType |-> "data"]]

\* validate(github, near) of a validator with thresholds th; t1 is the value of
\* Date.now() in validateDataFreshness and t2 its value when the result is built
validate(gh, nr, th, t1, t2) ==
    LET errors == validateDataFreshness(gh, nr, driftErrors(gh, nr, th), th, t1)
        warnings == validateUserEngagement(gh, nr,
                        validateActivityCorrelation(gh, nr, <<>>, th), th)
    IN  [isValid |-> Len(errors) = 0,
         errors |-> errors,
         warnings |-> warnings,
         timestamp |-> t2,
         metadata |-> [source |-> "github", validationType |-> "data"]]

(***************************************************************************)
(* The records a caller may hand to validate.  A counter drawn from        *)
(* Counters \cup {Missing} that is Missing is a property the record lacks. *)
(***************************************************************************)
Missing == -1

\* the object with a counter named f (when it is not Missing) and a list named g
Part(f, c, g, ids) ==
    IF c = Missing THEN [k \in {g} |-> ids]
    ELSE [k \in {f, g} |-> IF k = f THEN c ELSE ids]

\* the object with a counter named f (when it is not Missing) and a list named g,
\* the counter defaulted to 0 when the property is missing or falsy
ZeroFilled(o, f, g) ==
    [k \in {f, g} |-> IF k = g THEN o[g] ELSE IF f \in DOMAIN o THEN o[f] ELSE 0]

GitHubMetrics(T, C, U) ==
    { [ commits      |-> Part("count", c[1], "authors", u[1]),
        pullRequests |-> Part("merged", c[2], "authors", u[2]),
        issues       |-> Part("closed", c[3], "participants", u[3]),
        metadata     |-> [collectionTimestamp |-> t] ] :
      t \in T, c \in C \X C \X C, u \in U \X U \X U }

NEARMetrics(T, C, U) ==
    { [ transactions |-> Part("count", c[1], "uniqueUsers", u[1]),
        contract     |-> Part("calls", c[2], "uniqueCallers", u[2]),
        metadata     |-> [collectionTimestamp |-> t] ] :
      t \in T, c \in C \X C, u \in U \X U }

\* the partial overrides that give some of the keys of full
Partial(full) == { [k \in S |-> full[k]] : S \in SUBSET DOMAIN full }

NoResult == [none |-> TRUE]

NoCall == [none |-> TRUE]

(***************************************************************************)
(* Operations.  T is the set of values the clock takes.                    *)
(***************************************************************************)
\* the clock values that Date.now() may return next
Later(T, t) == { x \in T : x > t /\ \A y \in T : y > t => x <= y }

\* new CrossValidator(arg), with the records and the clock of the caller
Construct(Args, G, N, T) ==
    /\ ctorArg \in Args
    /\ thresholds = Constructor(ctorArg)
    /\ github \in G
    /\ near \in N
    /\ clock \in T
    /\ now = 0
    /\ result = NoResult
    /\ saved = NoCall

\* the mutant of Validate: the findings are kept in the validator between calls
ValidateAccumulating(T) ==
    \E t2 \in {clock} \cup Later(T, clock) :
        LET r == validate(github, near, thresholds, clock, t2)
            olderrors == IF result = NoResult THEN <<>> ELSE result.errors
            oldwarnings == IF result = NoResult THEN <<>> ELSE result.warnings
        IN  /\ Len(olderrors) <= 3
            /\ result' = [r EXCEPT !.errors = olderrors \o r.errors,
                                   !.warnings = oldwarnings \o r.warnings,
                                   !.isValid = Len(olderrors \o r.errors) = 0]
            /\ now' = clock
            /\ clock' = t2
            /\ UNCHANGED <<ctorArg, thresholds, github, near, saved>>

\* the mutant of Validate: missing counters are defaulted in the records
ValidateDefaulting(T) ==
    \E t2 \in {clock} \cup Later(T, clock) :
        /\ github' = [github EXCEPT
                        !.commits = ZeroFilled(@, "count", "authors"),
                        !.pullRequests = ZeroFilled(@, "merged", "authors"),
                        !.issues = ZeroFilled(@, "closed", "participants")]
        /\ near' = [near EXCEPT
                        !.transactions = ZeroFilled(@, "count", "uniqueUsers"),
                        !.contract = ZeroFilled(@, "calls", "uniqueCallers")]
        /\ result' = validate(github', near', thresholds, clock, t2)
        /\ now' = clock
        /\ clock' = t2
        /\ UNCHANGED <<ctorArg, thresholds, saved>>

\* validator.validate(github, near): Date.now() is read in validateDataFreshness
\* and again when the result is built
Validate(T) ==
    \E t2 \in {clock} \cup Later(T, clock) :
        /\ result' = validate(github, near, thresholds, clock, t2)
        /\ now' = clock
        /\ clock' = t2
        /\ UNCHANGED <<ctorArg, thresholds, github, near, saved>>

\* time passes between calls
Tick(T) ==
    /\ \E t \in Later(T, clock) : clock' = t
    /\ UNCHANGED <<ctorArg, thresholds, github, near, now, result, saved>>

\* the caller collects new GitHub metrics and drops the result of the old ones
CollectGitHub(G) ==
    /\ \E g \in G : g # github /\ github' = g
    /\ result' = NoResult
    /\ UNCHANGED <<ctorArg, thresholds, near, clock, now, saved>>

\* the caller collects new NEAR metrics and drops the result of the old ones
CollectNear(N) ==
    /\ \E n \in N : n # near /\ near' = n
    /\ result' = NoResult
    /\ UNCHANGED <<ctorArg, thresholds, github, clock, now, saved>>

\* the caller keeps the inputs and the result of the latest call
Remember ==
    /\ result # NoResult
    /\ saved = NoCall
    /\ saved' = [github |-> github, near |-> near, now |-> now, result |-> result]
    /\ UNCHANGED <<ctorArg, thresholds, github, near, clock, now, result>>

(***************************************************************************)
(* Spec: one validator used for several calls on changing records.         *)
(***************************************************************************)
CallTimes == 0 .. MaxTime

CallArgs == Partial([maxTimeDrift |-> 0, maxDataAge |-> 0])

CallGitHub ==
    { g \in GitHubMetrics({0, MaxTime - 1}, {0, MaxCount, Missing},
                          {{}, 1 .. MaxUsers}) :
        /\ g.pullRequests = [merged |-> 0, authors |-> {}]
        /\ g.issues = [closed |-> 0, participants |-> {}]
        /\ g.commits.authors = {} }

CallNear ==
    { n \in NEARMetrics({0, MaxTime - 1}, {0}, {{}, 1 .. MaxUsers}) :
        n.contract.uniqueCallers = {} }

Init == Construct(CallArgs, CallGitHub, CallNear, CallTimes)

Next ==
    \/ Validate(CallTimes)
    \/ Tick(CallTimes)
    \/ CollectGitHub(CallGitHub)
    \/ CollectNear(CallNear)
    \/ Remember

Spec == Init /\ [][Next]_vars
(***************************************************************************)
(* SpecTime: records that differ in their collection timestamps, around    *)
(* small thresholds and around the default ones.                           *)
(***************************************************************************)
TimeGrid ==
    (0 .. MaxTime)
    \cup { DEFAULT_THRESHOLDS.maxTimeDrift + t : t \in 0 .. MaxTime }
    \cup { DEFAULT_THRESHOLDS.maxDataAge + t : t \in 0 .. MaxTime }

TimeArgs == Partial([maxTimeDrift |-> 1, maxDataAge |-> 1])

TimeGitHub == GitHubMetrics(TimeGrid, {0}, {{}})

TimeNear == NEARMetrics(TimeGrid, {0}, {{}})

InitTime == Construct(TimeArgs, TimeGitHub, TimeNear, TimeGrid)

NextTime ==
    \/ Validate(TimeGrid)
    \/ Tick(TimeGrid)

SpecTime == InitTime /\ [][NextTime]_vars

(***************************************************************************)
(* SpecActivity: records that differ in their activity counters, a counter *)
(* being a number or missing.                                              *)
(***************************************************************************)
ActivityArgs ==
    UNION { Partial([minActivityCorrelation |-> x]) :
            x \in {Frac(0, 1), Frac(1, 2), Frac(1, 1), Frac(3, 2)} }

ActivityGitHub == GitHubMetrics({0}, (0 .. MaxCount) \cup {Missing}, {{}})

ActivityNear == NEARMetrics({0}, (0 .. MaxCount) \cup {Missing}, {{}})

InitActivity == Construct(ActivityArgs, ActivityGitHub, ActivityNear, CallTimes)

NextActivity ==
    \/ Validate(CallTimes)
    \/ Tick(CallTimes)

SpecActivity == InitActivity /\ [][NextActivity]_vars

(***************************************************************************)
(* SpecUsers: records that differ in their lists of user identifiers.  The *)
(* clock, which the user check does not read, stands still.                *)
(***************************************************************************)
UsersArgs ==
    UNION { Partial([maxUserDiffRatio |-> x]) : x \in {Frac(0, 1), Frac(1, 3)} }

UsersGitHub == GitHubMetrics({0}, {0}, SUBSET (1 .. MaxUsers))

UsersNear == NEARMetrics({0}, {0}, SUBSET (1 .. MaxUsers))

InitUsers == Construct(UsersArgs, UsersGitHub, UsersNear, {0})

NextUsers == Validate({0})

SpecUsers == InitUsers /\ [][NextUsers]_vars

(***************************************************************************)
(* Properties.                                                             *)
(***************************************************************************)
\* the positions of the findings with a given code, or a given message
WithCode(findings, code) == { i \in DOMAIN findings : findings[i].code = code }

WithMessage(findings, message) ==
    { i \in DOMAIN findings : findings[i].message = message }

tsA == github.metadata.collectionTimestamp

tsB == near.metadata.collectionTimestamp

\* C1: a result is valid exactly when it has no errors, whatever its warnings.
C1_ValidIffNoErrors ==
    result # NoResult => (result.isValid <=> result.errors = <<>>)

C1_Witness ==
    /\ result # NoResult
    /\ result.isValid
    /\ Len(result.warnings) = 2

\* C2: the errors hold exactly one TIMESTAMP_DRIFT error, with the drift in its
\* context, when |tsA - tsB| > maxTimeDrift, and none otherwise.
C2_TimestampDrift ==
    result # NoResult =>
        LET drift == IF tsA > tsB THEN tsA - tsB ELSE tsB - tsA
            D == WithCode(result.errors, "TIMESTAMP_DRIFT")
        IN  IF drift > thresholds.maxTimeDrift
            THEN /\ Cardinality(D) = 1
                 /\ \A i \in D : result.errors[i].context = [drift |-> drift]
            ELSE D = {}

C2_Witness ==
    /\ result # NoResult
    /\ "maxTimeDrift" \notin DOMAIN ctorArg
    /\ tsB - tsA = DEFAULT_THRESHOLDS.maxTimeDrift + 1
    /\ WithCode(result.errors, "TIMESTAMP_DRIFT") # {}

\* C3: the STALE_DATA errors are one per record that is older than maxDataAge at
\* the one value of now, each with its record's timestamp and maxAge.
C3_Freshness ==
    result # NoResult =>
        LET S == WithCode(result.errors, "STALE_DATA")
            A == WithMessage(result.errors, "GitHub data is too old")
            B == WithMessage(result.errors, "NEAR data is too old")
            staleA == now - tsA > thresholds.maxDataAge
            staleB == now - tsB > thresholds.maxDataAge
        IN  /\ S = A \cup B
            /\ Cardinality(A) = IF staleA THEN 1 ELSE 0
            /\ Cardinality(B) = IF staleB THEN 1 ELSE 0
            /\ \A i \in A : result.errors[i].context =
                    [timestamp |-> tsA, maxAge |-> thresholds.maxDataAge]
            /\ \A i \in B : result.errors[i].context =
                    [timestamp |-> tsB, maxAge |-> thresholds.maxDataAge]

C3_Witness ==
    /\ result # NoResult
    /\ now - tsA > thresholds.maxDataAge
    /\ now - tsB > thresholds.maxDataAge
    /\ tsA # tsB
    /\ Cardinality(WithCode(result.errors, "STALE_DATA")) = 2

\* every activity counter of both records is present
AllDefined ==
    /\ "count" \in DOMAIN github.commits
    /\ "merged" \in DOMAIN github.pullRequests
    /\ "closed" \in DOMAIN github.issues
    /\ "count" \in DOMAIN near.transactions
    /\ "calls" \in DOMAIN near.contract

\* the sums of the counters of each source
sumA == github.commits.count + github.pullRequests.merged + github.issues.closed

sumB == near.transactions.count + near.contract.calls

Idle == AllDefined /\ sumA = 0 /\ sumB = 0

\* C4 as stated: when every counter is 0 the correlation is 1 and there is no
\* LOW_ACTIVITY_CORRELATION warning, whatever minActivityCorrelation is.
C4_IdleNeverWarns ==
    (result # NoResult /\ Idle) =>
        /\ calculateActivityCorrelation(github, near) = Num(1)
        /\ WithCode(result.warnings, "LOW_ACTIVITY_CORRELATION") = {}

\* C4 amended: when every counter is 0 the correlation is 1, and there is no
\* LOW_ACTIVITY_CORRELATION warning provided minActivityCorrelation <= 1.
C4_IdleNoWarningUpToOne ==
    (result # NoResult /\ Idle) =>
        /\ calculateActivityCorrelation(github, near) = Num(1)
        /\ ~Greater(thresholds.minActivityCorrelation, Num(1)) =>
                WithCode(result.warnings, "LOW_ACTIVITY_CORRELATION") = {}

C4_Witness ==
    /\ result # NoResult
    /\ Idle
    /\ thresholds.minActivityCorrelation = Num(1)
    /\ result.warnings = <<>>

\* the record with every missing counter set to 0
GitHubZeroFilled ==
    [github EXCEPT !.commits = ZeroFilled(@, "count", "authors"),
                   !.pullRequests = ZeroFilled(@, "merged", "authors"),
                   !.issues = ZeroFilled(@, "closed", "participants")]

NearZeroFilled ==
    [near EXCEPT !.transactions = ZeroFilled(@, "count", "uniqueUsers"),
                 !.contract = ZeroFilled(@, "calls", "uniqueCallers")]

\* C5: the findings for records with a missing counter are those for the records
\* with that counter set to 0.
C5_MissingCountsAsZero ==
    result # NoResult =>
        LET filled == validate(GitHubZeroFilled, NearZeroFilled, thresholds,
                               now, result.timestamp)
        IN  /\ result.errors = filled.errors
            /\ result.warnings = filled.warnings

\* C6: for counters that are present, the correlation is min / max of the two
\* activities (1 when both are 0), lies in [0, 1], is the same with the two
\* activities swapped, and LOW_ACTIVITY_CORRELATION is emitted once, with
\* {correlation, threshold}, exactly when correlation < minActivityCorrelation.
C6_Correlation ==
    (result # NoResult /\ AllDefined) =>
        LET \* activityA = sumA / 3 and activityB = sumB / 2, over the denominator 6
            a == 2 * sumA
            b == 3 * sumB
            lo == IF a < b THEN a ELSE b
            hi == IF a < b THEN b ELSE a
            c == calculateActivityCorrelation(github, near)
            thr == thresholds.minActivityCorrelation
            low == c.n * thr.d < thr.n * c.d
            L == WithCode(result.warnings, "LOW_ACTIVITY_CORRELATION")
            \* records whose activities are those of github and near, swapped
            gh2 == [github EXCEPT !.commits.count = b \div 2,
                                  !.pullRequests.merged = 0,
                                  !.issues.closed = 0]
            nr2 == [near EXCEPT !.transactions.count = a \div 3,
                                !.contract.calls = 0]
        IN  /\ c.d > 0
            /\ IF hi = 0 THEN c = Num(1) ELSE c.n * hi = lo * c.d
            /\ 0 <= c.n /\ c.n <= c.d
            /\ (b % 2 = 0 /\ a % 3 = 0) =>
                    calculateActivityCorrelation(gh2, nr2) = c
            /\ Cardinality(L) = IF low THEN 1 ELSE 0
            /\ \A i \in L : result.warnings[i].context =
                    [correlation |-> c, threshold |-> thr]

C6_Witness ==
    /\ result # NoResult
    /\ AllDefined
    /\ sumA = 3 /\ sumB = 4
    /\ thresholds.minActivityCorrelation = Frac(1, 2)
    /\ result.warnings = <<>>

\* C7: USER_COUNT_DISCREPANCY is emitted once, with the difference and the
\* allowed amount, exactly when the sizes of the two deduplicated unions differ
\* by more than max(size) * maxUserDiffRatio; never when both unions are empty.
C7_UserDiscrepancy ==
    result # NoResult =>
        LET usersA == github.commits.authors \cup github.pullRequests.authors
                      \cup github.issues.participants
            usersB == near.transactions.uniqueUsers \cup near.contract.uniqueCallers
            sizeA == Cardinality(usersA)
            sizeB == Cardinality(usersB)
            diff == IF sizeA > sizeB THEN sizeA - sizeB ELSE sizeB - sizeA
            larger == IF sizeA > sizeB THEN sizeA ELSE sizeB
            ratio == thresholds.maxUserDiffRatio
            W == WithCode(result.warnings, "USER_COUNT_DISCREPANCY")
        IN  /\ Cardinality(W) = IF diff * ratio.d > larger * ratio.n THEN 1 ELSE 0
            /\ \A i \in W :
                /\ result.warnings[i].context.difference = diff
                /\ result.warnings[i].context.threshold.n * ratio.d =
                        larger * ratio.n * result.warnings[i].context.threshold.d
            /\ (usersA = {} /\ usersB = {}) => W = {}

C7_Witness ==
    /\ result # NoResult
    /\ github.commits.authors \cap github.pullRequests.authors # {}
    /\ near.transactions.uniqueUsers \cap near.contract.uniqueCallers # {}
    /\ \E i \in DOMAIN result.warnings :
            /\ result.warnings[i].code = "USER_COUNT_DISCREPANCY"
            /\ result.warnings[i].context.difference = 1

\* C8: the errors are TIMESTAMP_DRIFT, then the STALE_DATA of GitHub, then the
\* STALE_DATA of NEAR; the warnings are LOW_ACTIVITY_CORRELATION, then
\* USER_COUNT_DISCREPANCY; no other code occurs.
C8_Order ==
    result # NoResult =>
        LET e == result.errors
            w == result.warnings
        IN  /\ \A i \in DOMAIN e : e[i].code \in {"TIMESTAMP_DRIFT", "STALE_DATA"}
            /\ \A i \in DOMAIN w :
                    w[i].code \in {"LOW_ACTIVITY_CORRELATION", "USER_COUNT_DISCREPANCY"}
            /\ \A i \in WithCode(e, "TIMESTAMP_DRIFT") :
                    \A j \in WithCode(e, "STALE_DATA") : i < j
            /\ \A i \in WithMessage(e, "GitHub data is too old") :
                    \A j \in WithMessage(e, "NEAR data is too old") : i < j
            /\ \A i \in WithCode(w, "LOW_ACTIVITY_CORRELATION") :
                    \A j \in WithCode(w, "USER_COUNT_DISCREPANCY") : i < j

C8_Witness ==
    /\ result # NoResult
    /\ Len(result.errors) = 3
    /\ Len(result.warnings) = 2

\* C9: a call with the records and the value of now of an earlier call returns
\* the errors and the warnings of that call.
C9_Deterministic ==
    ( /\ saved # NoCall
      /\ result # NoResult
      /\ saved.github = github
      /\ saved.near = near
      /\ saved.now = now ) =>
        /\ result.errors = saved.result.errors
        /\ result.warnings = saved.result.warnings

C9_Witness ==
    /\ saved # NoCall
    /\ result # NoResult
    /\ saved.github = github
    /\ saved.near = near
    /\ saved.now = now
    /\ saved.result.timestamp # result.timestamp
    /\ result.errors # <<>>
    /\ result.warnings # <<>>

\* C10: a step that ends with a result leaves both records as they were, and the
\* thresholds are always those the constructor resolved, which the findings cite.
C10_ReadOnly ==
    [][ /\ result' # NoResult => (github' = github /\ near' = near)
        /\ thresholds' = thresholds
        /\ thresholds' = [k \in ThresholdKeys |->
                            IF k \in DOMAIN ctorArg THEN ctorArg[k]
                            ELSE DEFAULT_THRESHOLDS[k]]
        /\ result' # NoResult =>
                \A i \in WithCode(result'.errors, "STALE_DATA") :
                    result'.errors[i].context.maxAge = thresholds.maxDataAge ]_vars

C10_Witness ==
    /\ result # NoResult
    /\ "count" \notin DOMAIN github.commits
    /\ DOMAIN ctorArg = {"maxDataAge"}
    /\ WithCode(result.errors, "STALE_DATA") # {}

=============================================================================
